---- MODULE Spec2Model ----
(***************************************************************************)
(* Bulk device provisioning (bulk_device_creation.py): the DeviceHandler   *)
(* orchestrator, its driver main(), the device registry and the credential *)
(* file it writes.                                                         *)
(*                                                                         *)
(* create_device contains no await: the registry client is synchronous, so *)
(* the event loop runs the tasks of one gather one after the other, each   *)
(* to completion, in launch order.  The registry itself is a remote        *)
(* service: between two registry calls of a task its state may be changed  *)
(* by others (RotateKey), and every call may raise.                        *)
(***************************************************************************)
EXTENDS Integers, Sequences, FiniteSets, TLC

\* ---------------------------------------------------------------- bounds
MaxBatch == 2      \* longest identifier list handed to create_devices_from_list
MaxKey   == 2      \* primary keys are the versions 1..MaxKey of a device's key
MaxRuns  == 2      \* runs of the driver against the same registry and file
MaxCount == 2      \* largest num_of_ids asked of generate_mac_addresses
Samples  == 2      \* values random.randint is seen to return, per range
MaxDups  == 1      \* duplicate draws followed in one generation loop

Ids      == {"m1", "m2"}
NoDevice == 0
Hostname == "hub"
NoClient == "None"
Session  == "session"

\* ------------------------------------------------------------- variables
VARIABLES
    run,              \* number of the current run of main()
    main_pc,          \* position of main()
    device_client,    \* DeviceHandler.device_client
    registry,         \* the hub's device registry: id -> primary key, or NoDevice
    device_ids,       \* the list passed to create_devices_from_list
    cm_pc,            \* position of create_devices_from_list
    task_pc,          \* position of every create_device task
    task_device,      \* key of the object `device` (lookup or creation result)
    task_info,        \* key of the object `device_info` (the re-fetch)
    task_res,         \* value returned by every create_device task
    task_err,         \* registry steps that raised in every task
    task_calls,       \* registry calls every task has made
    faulted,          \* ids for which a call the registry could serve raised
    all_credentials,  \* the dict built by create_devices_from_list
    main_credentials, \* main()'s all_credentials (the returned store)
    persist_res,      \* outcome of this run's create_device_credentials_file
    file,             \* iothub_device_credential.json
    prev_store,       \* store returned by the previous run
    prev_written,     \* ids in the credential file when this run started
    conn_ids,         \* keys of the store given to connect_all_devices, in order
    conn_pc,          \* position of every connect_device task
    conn_closed,      \* disconnect() has been invoked by the task
    conn_err,         \* the step of the task that raised, or "none"
    existed,          \* ids that were in the registry when the batch was launched
    gen_pc,           \* position of generate_mac_addresses
    num_of_ids,       \* GenerateMacID.num_of_ids
    mac_addresses,    \* the set built by generate_mac_addresses
    gen_iters,        \* iterations of its while loop so far
    gen_result        \* the list it returned

genVars == <<gen_pc, num_of_ids, mac_addresses, gen_iters, gen_result>>

vars == <<run, main_pc, device_client, registry, device_ids, cm_pc, task_pc,
          task_device, task_info, task_res, task_err, task_calls, faulted,
          all_credentials, main_credentials, persist_res, file, prev_store,
          prev_written, conn_ids, conn_pc, conn_closed, conn_err, existed,
          genVars>>

taskVars == <<task_pc, task_device, task_info, task_res, task_err, task_calls,
              faulted, existed>>
runVars  == <<prev_store, prev_written>>
connVars == <<conn_ids, conn_pc, conn_closed, conn_err>>

\* --------------------------------------------------------------- helpers
Range(s) == {s[i] : i \in 1..Len(s)}

\* Python's {} ; a dict is falsy exactly when it has no key.
EmptyDict == <<>>
Truthy(d) == DOMAIN d # {}

\* The lists generate_mac_addresses can hand over: list(set), so the
\* identifiers are pairwise distinct and come in any order.
DistinctBatches ==
    UNION {{s \in [1..n -> Ids] : \A i, j \in 1..n : s[i] = s[j] => i = j}
           : n \in 0..MaxBatch}

\* create_device returning the key of `device` instead of the re-fetched one.
CredentialStaleKey(device_id, device_key, device_info_key) ==
    [hostname |-> Hostname, device_id |-> device_id,
     shared_access_key |-> device_key]

\* The dict returned by create_device on success.
Credential(device_id, device_key, device_info_key) ==
    [hostname |-> Hostname, device_id |-> device_id,
     shared_access_key |-> device_info_key]

\* json.dump(credentials, f, indent=4): one object member per key, holding
\* the three members of the credential.
JsonDump(credentials) ==
    {<<k, credentials[k].hostname, credentials[k].device_id,
       credentials[k].shared_access_key>> : k \in DOMAIN credentials}

NoFile == [kind |-> "absent", data |-> {}]

\* The keys of the JSON object in the file.
FileKeys(f) == {e[1] : e \in f.data}

\* ----------------------------------------------------------- GenerateMacID
Oct4Max == 127     \* 0x7f
OctMax  == 255     \* 0xff
Prefix  == <<0, 22, 62>>    \* 0x00, 0x16, 0x3e

\* random.randint(lo, hi): Samples values spread over lo..hi, both ends
\* included.
RandInt(lo, hi) ==
    {lo + ((hi - lo) * k) \div (Samples - 1) : k \in 0..(Samples - 1)}

HexDigits ==
    <<"0", "1", "2", "3", "4", "5", "6", "7",
      "8", "9", "a", "b", "c", "d", "e", "f">>

\* f'{x:02x}' for an octet.
Hex2(x) == <<HexDigits[(x \div 16) + 1], HexDigits[(x % 16) + 1]>>

\* '-'.join(...) of the six rendered octets: a string of 17 characters.
JoinMac(mac) ==
    Hex2(mac[1]) \o <<"-">> \o Hex2(mac[2]) \o <<"-">> \o Hex2(mac[3])
        \o <<"-">> \o Hex2(mac[4]) \o <<"-">> \o Hex2(mac[5])
        \o <<"-">> \o Hex2(mac[6])

\* generate_mac drawing its first random octet from the full range.
GenerateMacWideOctet ==
    {JoinMac(Prefix \o <<a, b, c>>) :
        a \in RandInt(0, OctMax), b \in RandInt(0, OctMax),
        c \in RandInt(0, OctMax)}

\* The values generate_mac can return.
GenerateMac ==
    {JoinMac(Prefix \o <<a, b, c>>) :
        a \in RandInt(0, Oct4Max), b \in RandInt(0, OctMax),
        c \in RandInt(0, OctMax)}

\* A loop that stops one element late.
LoopContinuesOneMore(addresses, count) == Cardinality(addresses) <= count

\* while len(mac_addresses) < self.num_of_ids
LoopContinues(addresses, count) == Cardinality(addresses) < count

\* list(mac_addresses): the elements of the set, once each, in some order.
ListsOf(addresses) ==
    {l \in [1..Cardinality(addresses) -> addresses] : Range(l) = addresses}

\* ------------------------------------------------------ the device registry
\* IoTHubRegistryManager.get_device: returns the device when the handler holds
\* a session and the device exists; raises otherwise (no session: the call on
\* None raises AttributeError) and may raise for any other reason.
GetDeviceOutcomes(client, reg, id) ==
    IF client = Session /\ reg[id] # NoDevice THEN {"ok", "raise"} ELSE {"raise"}

\* IoTHubRegistryManager.create_device_with_sas: creates a device that does
\* not exist yet; raises when it exists, without a session, or otherwise.
CreateOutcomes(client, reg, id) ==
    IF client = Session /\ reg[id] = NoDevice THEN {"ok", "raise"} ELSE {"raise"}

\* The key the registry assigns with primary_key=None.
FreshKey == 1

\* A call raised although the registry could have served it.
IsFault(outcomes, outcome) == outcome = "raise" /\ "ok" \in outcomes

\* -------------------------------------------------------------- connect_hub
\* try/except of connect_hub: the handle is stored on success only.
ConnectHubClient(client, outcome) ==
    IF outcome = "ok" THEN Session ELSE client

\* connect_hub without its except branch.
ConnectHubNextPropagates(outcome) ==
    IF outcome = "ok" THEN "generate" ELSE "caught"

\* connect_hub returns normally on both paths.
ConnectHubNext(outcome) == "generate"

\* ------------------------------------------------------------ create_device
Terminal(pc) == pc \in {"done", "raised"}

\* create_device giving up when the lookup raises.
LookupNextNeverCreates(outcome) ==
    IF outcome = "ok" THEN "fetch" ELSE "done"

\* create_device that creates without looking at the lookup's result.
LookupNextAlwaysCreates(outcome) == "create"

\* try/except around the lookup: found -> key retrieval, else -> creation.
LookupNext(outcome) ==
    IF outcome = "ok" THEN "fetch" ELSE "create"

\* create_device without the inner except branch.
CreateNextPropagates(outcome) ==
    IF outcome = "ok" THEN "fetch" ELSE "raised"

\* try/except around create_device_with_sas: an exception returns {}.
CreateNext(outcome) ==
    IF outcome = "ok" THEN "fetch" ELSE "done"

\* try/except around the key retrieval: both paths return.
FetchNext(outcome) == "done"

\* Value returned after the key retrieval.
FetchResult(device_id, device_key, outcome, device_info_key) ==
    IF outcome = "ok"
    THEN Credential(device_id, device_key, device_info_key)
    ELSE EmptyDict

\* ------------------------------------------------- create_devices_from_list
\* A wait that ends with the first finished task.
GatherFirstCompleted(pcs) ==
    pcs = <<>> \/ \E i \in DOMAIN pcs : Terminal(pcs[i])

\* asyncio.gather(*tasks) completes when every task has.
GatherDone(pcs) == \A i \in DOMAIN pcs : Terminal(pcs[i])

\* gather re-raises the exception of a task that raised.
GatherRaises(pcs) == \E i \in DOMAIN pcs : pcs[i] = "raised"

\* for i, credentials in enumerate(credentials_list): if credentials: ...
RECURSIVE StoreLoop(_, _, _, _)
StoreLoop(ids, results, i, acc) ==
    IF i > Len(ids) THEN acc
    ELSE StoreLoop(ids, results, i + 1,
            IF Truthy(results[i])
            THEN [k \in DOMAIN acc \cup {ids[i]} |->
                    IF k = ids[i] THEN results[i] ELSE acc[k]]
            ELSE acc)

\* The loop pairing the results with the identifiers from the other end.
AssembleStoreReversed(ids, results) ==
    StoreLoop([i \in 1..Len(ids) |-> ids[Len(ids) + 1 - i]], results, 1,
              EmptyDict)

\* The loop without its `if credentials:` test.
AssembleStoreKeepsEmpty(ids, results) ==
    [k \in Range(ids) |->
        results[CHOOSE i \in 1..Len(ids) :
                   ids[i] = k /\ \A j \in (i + 1)..Len(ids) : ids[j] # k]]

AssembleStore(ids, results) == StoreLoop(ids, results, 1, EmptyDict)

\* create_device_credentials_file: open(file_path, "w") and json.dump, inside
\* try/except.  open may fail (file untouched); json.dump may fail after open
\* has truncated the file.
WriteOutcomes == {"ok", "open_fail", "dump_fail"}

\* A writer that leaves the file alone when there is nothing to store.
WriteFileSkipsEmpty(old, credentials, outcome) ==
    CASE outcome = "ok" /\ credentials = EmptyDict -> old
      [] outcome = "ok" /\ credentials # EmptyDict ->
            [kind |-> "json", data |-> JsonDump(credentials)]
      [] outcome = "open_fail" -> old
      [] outcome = "dump_fail" -> [kind |-> "partial", data |-> {}]

\* A writer that adds the new entries to those already in the file.
WriteFileMerges(old, credentials, outcome) ==
    CASE outcome = "ok" ->
            [kind |-> "json",
             data |-> {e \in old.data : e[1] \notin DOMAIN credentials}
                        \cup JsonDump(credentials)]
      [] outcome = "open_fail" -> old
      [] outcome = "dump_fail" -> [kind |-> "partial", data |-> {}]

WriteFile(old, credentials, outcome) ==
    CASE outcome = "ok"        -> [kind |-> "json", data |-> JsonDump(credentials)]
      [] outcome = "open_fail" -> old
      [] outcome = "dump_fail" -> [kind |-> "partial", data |-> {}]

\* create_device_credentials_file without its except branch.
PersistNextPropagates(outcome) ==
    IF outcome = "ok" THEN "returned" ELSE "raised"

\* create_device_credentials_file returns normally on every path.
PersistNext(outcome) == "returned"

\* A fan-out over the identifiers instead of the store's entries.
KeysInOrderAll(ids, results, i) == ids

\* all_credentials.items(): the keys in insertion order, a key being inserted
\* by the first non-empty result for it.
RECURSIVE KeysInOrder(_, _, _)
KeysInOrder(ids, results, i) ==
    IF i > Len(ids) THEN <<>>
    ELSE LET rest == KeysInOrder(ids, results, i + 1)
         IN  IF Truthy(results[i])
                /\ \A j \in 1..(i - 1) : ~(ids[j] = ids[i] /\ Truthy(results[j]))
             THEN <<ids[i]>> \o rest
             ELSE rest

\* ----------------------------------------------------------- connect_device
ConnTerminal(pc) == pc \in {"done", "failed", "raised"}

\* IoTHubDeviceClient.create_from_connection_string inside the try.
ConnBuildNext(outcome) ==
    IF outcome = "ok" THEN "connecting" ELSE "failed"

\* connect_device letting a failed connect() escape.
ConnOpenNextPropagates(outcome) ==
    IF outcome = "ok" THEN "disconnecting" ELSE "raised"

\* await device_client.connect(); on success the log line, then disconnect()
\* is invoked; an exception goes to the except branch.
ConnOpenNext(outcome) ==
    IF outcome = "ok" THEN "disconnecting" ELSE "failed"

\* disconnect() is invoked on the line after the successful connect() only.
DisconnectInvoked(outcome) == outcome = "ok"

\* await device_client.disconnect() inside the same try.
ConnCloseNext(outcome) ==
    IF outcome = "ok" THEN "done" ELSE "failed"

\* A wait that ends with the first finished connect_device.
ConnGatherFirstCompleted(pcs) ==
    pcs = <<>> \/ \E i \in DOMAIN pcs : ConnTerminal(pcs[i])

\* asyncio.gather(*tasks) of connect_all_devices.
ConnGatherDone(pcs) == \A i \in DOMAIN pcs : ConnTerminal(pcs[i])

\* input(...).strip().lower() == 'yes', or anything else.
UserResponses == {"yes", "no"}

\* ------------------------------------------------------------------ Init
Init ==
    /\ run = 1
    /\ main_pc = "connect_hub"
    /\ device_client = NoClient
    /\ registry \in [Ids -> {NoDevice, FreshKey}]
    /\ device_ids = <<>>
    /\ cm_pc = "idle"
    /\ task_pc = <<>>
    /\ task_device = <<>>
    /\ task_info = <<>>
    /\ task_res = <<>>
    /\ task_err = <<>>
    /\ task_calls = <<>>
    /\ faulted = {}
    /\ all_credentials = EmptyDict
    /\ main_credentials = EmptyDict
    /\ persist_res = "none"
    /\ file = NoFile
    /\ prev_store = EmptyDict
    /\ prev_written = {}
    /\ conn_ids = <<>>
    /\ conn_pc = <<>>
    /\ conn_closed = <<>>
    /\ conn_err = <<>>
    /\ existed = {}
    /\ gen_pc = "idle"
    /\ num_of_ids = 0
    /\ mac_addresses = {}
    /\ gen_iters = 0
    /\ gen_result = <<>>

\* --------------------------------------------------------------- actions
\* main(): await device_handler.connect_hub()
ConnectHub ==
    /\ main_pc = "connect_hub"
    /\ \E outcome \in {"ok", "raise"} :
         /\ device_client' = ConnectHubClient(device_client, outcome)
         /\ main_pc' = ConnectHubNext(outcome)
    /\ UNCHANGED <<run, registry, device_ids, cm_pc, taskVars,
                   all_credentials, main_credentials,
                   persist_res, file, runVars, connVars, genVars>>

\* main(): mac_ids = generate_mac_handler.generate_mac_addresses()
GenerateIds ==
    /\ main_pc = "generate"
    /\ \E batch \in DistinctBatches : device_ids' = batch
    /\ main_pc' = "create"
    /\ UNCHANGED <<run, device_client, registry, cm_pc, taskVars,
                   all_credentials, main_credentials,
                   persist_res, file, runVars, connVars, genVars>>

\* create_devices_from_list, up to the await of gather: one task per id.
CM_Launch ==
    /\ main_pc = "create"
    /\ main_pc' = "provisioning"
    /\ cm_pc' = "gather"
    /\ all_credentials' = EmptyDict
    /\ task_pc' = [i \in 1..Len(device_ids) |-> "pending"]
    /\ task_device' = [i \in 1..Len(device_ids) |-> NoDevice]
    /\ task_info' = [i \in 1..Len(device_ids) |-> NoDevice]
    /\ task_res' = [i \in 1..Len(device_ids) |-> EmptyDict]
    /\ task_err' = [i \in 1..Len(device_ids) |-> {}]
    /\ task_calls' = [i \in 1..Len(device_ids) |-> {}]
    /\ existed' = {id \in Ids : registry[id] # NoDevice}
    /\ UNCHANGED <<run, device_client, registry, device_ids, faulted,
                   main_credentials, persist_res, file,
                   runVars, connVars, genVars>>

\* Tasks that give way to each other at every registry call.
RunnableInterleaved(i) ==
    /\ cm_pc = "gather"
    /\ i \in DOMAIN task_pc
    /\ ~Terminal(task_pc[i])

\* The event loop runs the tasks in launch order, each to its end: none of
\* them awaits.
Runnable(i) ==
    /\ cm_pc = "gather"
    /\ i \in DOMAIN task_pc
    /\ ~Terminal(task_pc[i])
    /\ \A j \in 1..(i - 1) : Terminal(task_pc[j])

\* create_device: device = self.device_client.get_device(device_id)
T_Lookup(i) ==
    /\ Runnable(i)
    /\ task_pc[i] = "pending"
    /\ LET id == device_ids[i]
           outcomes == GetDeviceOutcomes(device_client, registry, id)
       IN  \E outcome \in outcomes :
             /\ task_pc' = [task_pc EXCEPT ![i] = LookupNext(outcome)]
             /\ task_calls' = [task_calls EXCEPT ![i] = @ \cup {"lookup"}]
             /\ task_err' = [task_err EXCEPT ![i] =
                               IF outcome = "raise" THEN @ \cup {"lookup"} ELSE @]
             /\ task_device' = [task_device EXCEPT ![i] =
                               IF outcome = "ok" THEN registry[id] ELSE @]
             /\ faulted' = IF IsFault(outcomes, outcome)
                           THEN faulted \cup {id} ELSE faulted
    /\ UNCHANGED <<run, main_pc, device_client, registry, device_ids, cm_pc,
                   task_info, task_res, all_credentials, main_credentials,
                   persist_res, file, runVars, connVars, existed, genVars>>

\* create_device: device = self.device_client.create_device_with_sas(...)
T_Create(i) ==
    /\ Runnable(i)
    /\ task_pc[i] = "create"
    /\ LET id == device_ids[i]
           outcomes == CreateOutcomes(device_client, registry, id)
       IN  \E outcome \in outcomes :
             /\ task_pc' = [task_pc EXCEPT ![i] = CreateNext(outcome)]
             /\ task_calls' = [task_calls EXCEPT ![i] = @ \cup {"create"}]
             /\ task_err' = [task_err EXCEPT ![i] =
                               IF outcome = "raise" THEN @ \cup {"create"} ELSE @]
             /\ registry' = IF outcome = "ok"
                            THEN [registry EXCEPT ![id] = FreshKey]
                            ELSE registry
             /\ task_device' = [task_device EXCEPT ![i] =
                               IF outcome = "ok" THEN FreshKey ELSE @]
             /\ task_res' = [task_res EXCEPT ![i] = EmptyDict]
             /\ faulted' = IF IsFault(outcomes, outcome)
                           THEN faulted \cup {id} ELSE faulted
    /\ UNCHANGED <<run, main_pc, device_client, device_ids, cm_pc, task_info,
                   all_credentials, main_credentials, persist_res, file,
                   runVars, connVars, existed, genVars>>

\* create_device: device_info = self.device_client.get_device(device_id)
T_Fetch(i) ==
    /\ Runnable(i)
    /\ task_pc[i] = "fetch"
    /\ LET id == device_ids[i]
           outcomes == GetDeviceOutcomes(device_client, registry, id)
       IN  \E outcome \in outcomes :
             /\ task_pc' = [task_pc EXCEPT ![i] = FetchNext(outcome)]
             /\ task_calls' = [task_calls EXCEPT ![i] = @ \cup {"fetch"}]
             /\ task_err' = [task_err EXCEPT ![i] =
                               IF outcome = "raise" THEN @ \cup {"fetch"} ELSE @]
             /\ task_info' = [task_info EXCEPT ![i] =
                               IF outcome = "ok" THEN registry[id] ELSE @]
             /\ task_res' = [task_res EXCEPT ![i] =
                               FetchResult(id, task_device[i], outcome, registry[id])]
             /\ faulted' = IF IsFault(outcomes, outcome)
                           THEN faulted \cup {id} ELSE faulted
    /\ UNCHANGED <<run, main_pc, device_client, registry, device_ids, cm_pc,
                   task_device, all_credentials,
                   main_credentials, persist_res, file, runVars, connVars,
                   existed, genVars>>

\* create_devices_from_list: gather returns, the store is assembled.
CM_Join ==
    /\ cm_pc = "gather"
    /\ GatherDone(task_pc)
    /\ IF GatherRaises(task_pc)
       THEN /\ cm_pc' = "raised"
            /\ main_pc' = "caught"
            /\ UNCHANGED all_credentials
       ELSE /\ cm_pc' = "persist"
            /\ main_pc' = main_pc
            /\ all_credentials' = AssembleStore(device_ids, task_res)
    /\ UNCHANGED <<run, device_client, registry, device_ids, taskVars,
                   main_credentials, persist_res, file, runVars, connVars,
                   genVars>>

\* create_devices_from_list: await self.create_device_credentials_file(...)
\* and return all_credentials to main().
CM_Persist ==
    /\ cm_pc = "persist"
    /\ \E outcome \in WriteOutcomes :
         /\ file' = WriteFile(file, all_credentials, outcome)
         /\ persist_res' = outcome
         /\ cm_pc' = PersistNext(outcome)
         /\ IF PersistNext(outcome) = "returned"
            THEN /\ main_credentials' = all_credentials
                 /\ main_pc' = "prompt"
            ELSE /\ main_credentials' = main_credentials
                 /\ main_pc' = "caught"
    /\ UNCHANGED <<run, device_client, registry, device_ids, taskVars,
                   all_credentials, runVars, connVars, genVars>>

\* main(): the prompt, then connect_all_devices (one task per entry) or the
\* log line of the else branch.  The locals of the finished
\* create_devices_from_list call are gone.
Prompt ==
    /\ main_pc = "prompt"
    /\ \E user_response \in UserResponses :
         IF user_response = "yes"
         THEN LET keys == KeysInOrder(device_ids, task_res, 1)
              IN  /\ main_pc' = "checking"
                  /\ conn_ids' = keys
                  /\ conn_pc' = [i \in 1..Len(keys) |-> "pending"]
                  /\ conn_closed' = [i \in 1..Len(keys) |-> FALSE]
                  /\ conn_err' = [i \in 1..Len(keys) |-> "none"]
         ELSE /\ main_pc' = "done"
              /\ UNCHANGED connVars
    /\ cm_pc' = "idle"
    /\ all_credentials' = EmptyDict
    /\ task_pc' = <<>>
    /\ task_device' = <<>>
    /\ task_info' = <<>>
    /\ task_res' = <<>>
    /\ task_err' = <<>>
    /\ task_calls' = <<>>
    /\ faulted' = {}
    /\ existed' = {}
    /\ UNCHANGED <<run, device_client, registry, device_ids,
                   main_credentials, persist_res, file, runVars, genVars>>

\* connect_device up to its first await: the connection string and the
\* client are built.  The event loop starts the tasks in launch order.
ConnStart(i) ==
    /\ main_pc = "checking"
    /\ i \in DOMAIN conn_pc
    /\ conn_pc[i] = "pending"
    /\ \A j \in 1..(i - 1) : conn_pc[j] # "pending"
    /\ \E outcome \in {"ok", "raise"} :
         /\ conn_pc' = [conn_pc EXCEPT ![i] = ConnBuildNext(outcome)]
         /\ conn_err' = [conn_err EXCEPT ![i] =
                           IF outcome = "raise" THEN "build" ELSE @]
    /\ UNCHANGED <<run, main_pc, device_client, registry, device_ids, cm_pc,
                   taskVars, all_credentials,
                   main_credentials, persist_res, file, runVars, conn_ids,
                   conn_closed, genVars>>

\* connect_device: await device_client.connect() completes.
ConnOpen(i) ==
    /\ main_pc = "checking"
    /\ i \in DOMAIN conn_pc
    /\ conn_pc[i] = "connecting"
    /\ \E outcome \in {"ok", "raise"} :
         /\ conn_pc' = [conn_pc EXCEPT ![i] = ConnOpenNext(outcome)]
         /\ conn_closed' = [conn_closed EXCEPT ![i] = DisconnectInvoked(outcome)]
         /\ conn_err' = [conn_err EXCEPT ![i] =
                           IF outcome = "raise" THEN "open" ELSE @]
    /\ UNCHANGED <<run, main_pc, device_client, registry, device_ids, cm_pc,
                   taskVars, all_credentials,
                   main_credentials, persist_res, file, runVars, conn_ids,
                   genVars>>

\* connect_device: await device_client.disconnect() completes.
ConnClose(i) ==
    /\ main_pc = "checking"
    /\ i \in DOMAIN conn_pc
    /\ conn_pc[i] = "disconnecting"
    /\ \E outcome \in {"ok", "raise"} :
         /\ conn_pc' = [conn_pc EXCEPT ![i] = ConnCloseNext(outcome)]
         /\ conn_err' = [conn_err EXCEPT ![i] =
                           IF outcome = "raise" THEN "close" ELSE @]
    /\ UNCHANGED <<run, main_pc, device_client, registry, device_ids, cm_pc,
                   taskVars, all_credentials,
                   main_credentials, persist_res, file, runVars, conn_ids,
                   conn_closed, genVars>>

\* connect_all_devices: gather returns, main() ends.
ConnAllJoin ==
    /\ main_pc = "checking"
    /\ ConnGatherDone(conn_pc)
    /\ main_pc' = IF \E i \in DOMAIN conn_pc : conn_pc[i] = "raised"
                  THEN "caught" ELSE "done"
    /\ UNCHANGED <<run, device_client, registry, device_ids, cm_pc, taskVars,
                   all_credentials, main_credentials, persist_res, file,
                   runVars, connVars, genVars>>

\* The program is run again: a new process and a new DeviceHandler, against
\* the same registry and the same credential file.
NewRun ==
    /\ main_pc \in {"done", "caught"}
    /\ run < MaxRuns
    /\ run' = run + 1
    /\ main_pc' = "connect_hub"
    /\ device_client' = NoClient
    /\ device_ids' = <<>>
    /\ cm_pc' = "idle"
    /\ task_pc' = <<>>
    /\ task_device' = <<>>
    /\ task_info' = <<>>
    /\ task_res' = <<>>
    /\ task_err' = <<>>
    /\ task_calls' = <<>>
    /\ all_credentials' = EmptyDict
    /\ main_credentials' = EmptyDict
    /\ persist_res' = "none"
    /\ prev_store' = main_credentials
    /\ prev_written' = FileKeys(file)
    /\ conn_ids' = <<>>
    /\ conn_pc' = <<>>
    /\ conn_closed' = <<>>
    /\ conn_err' = <<>>
    /\ faulted' = {}
    /\ existed' = {}
    /\ UNCHANGED <<registry, file, genVars>>

\* Someone else regenerates the primary key of a device in the registry.  The
\* program reads the registry in its create_device tasks only, so a rotation
\* at any other time shows as one at the start of the next batch.
RotateKey(id) ==
    /\ cm_pc = "gather"
    /\ registry[id] # NoDevice
    /\ registry[id] < MaxKey
    /\ registry' = [registry EXCEPT ![id] = @ + 1]
    /\ UNCHANGED <<run, main_pc, device_client, device_ids, cm_pc, taskVars,
                   all_credentials, main_credentials, persist_res, file,
                   runVars, connVars, genVars>>

Next ==
    \/ ConnectHub
    \/ GenerateIds
    \/ CM_Launch
    \/ \E i \in 1..MaxBatch : T_Lookup(i)
    \/ \E i \in 1..MaxBatch : T_Create(i)
    \/ \E i \in 1..MaxBatch : T_Fetch(i)
    \/ CM_Join
    \/ CM_Persist
    \/ Prompt
    \/ \E i \in 1..MaxBatch : ConnStart(i)
    \/ \E i \in 1..MaxBatch : ConnOpen(i)
    \/ \E i \in 1..MaxBatch : ConnClose(i)
    \/ ConnAllJoin
    \/ NewRun
    \/ \E id \in Ids : RotateKey(id)

Spec == Init /\ [][Next]_vars

\* ------------------------------------------------------------ properties
Tasks == DOMAIN task_pc

\* create_devices_from_list has assembled its store / has returned it.
Assembled == cm_pc \in {"persist", "returned"}
Returned  == cm_pc = "returned"

\* The identifiers of the batch whose creation or key retrieval raised.
FailedIds ==
    {device_ids[i] : i \in {j \in Tasks : task_err[j] \cap {"create", "fetch"} # {}}}

\* C1: create_devices_from_list returns, without raising, a store whose keys
\* are the input identifiers minus those whose provisioning failed (N-1
\* entries when exactly one fails); no key maps to an empty value.
C1_PartialFailure ==
    /\ cm_pc # "raised"
    /\ Assembled =>
         /\ DOMAIN all_credentials = Range(device_ids) \ FailedIds
         /\ \A k \in DOMAIN all_credentials : Truthy(all_credentials[k])
         /\ Cardinality(FailedIds) = 1 =>
              Cardinality(DOMAIN all_credentials) = Len(device_ids) - 1
    /\ Returned => main_credentials = all_credentials

C1_Witness ==
    /\ Returned
    /\ Len(device_ids) = 2
    /\ Cardinality({i \in Tasks : "create" \in task_err[i]}) = 1
    /\ Cardinality({i \in Tasks : task_err[i] \subseteq {"lookup"}}) = 1
    /\ Cardinality(DOMAIN main_credentials) = 1

\* C2: once create_devices_from_list is past its gather, every task it
\* launched (one per identifier) has returned; none is pending or dropped.
C2_NoDanglingTask ==
    Assembled =>
        /\ Tasks = 1..Len(device_ids)
        /\ \A i \in Tasks : task_pc[i] = "done"

C2_Witness ==
    /\ Returned
    /\ Len(device_ids) = 2
    /\ \A i \in Tasks : task_pc[i] = "done" /\ "fetch" \in task_calls[i]

\* The lookup of task i found the device.
Found(i) == "lookup" \in task_calls[i] /\ "lookup" \notin task_err[i]

\* C3: a task whose lookup found the device never invokes the registry's
\* create; a second create_device for an identifier the previous run
\* provisioned, with a session and no call failing, creates nothing, finds
\* the device still there and returns the same device_id.
C3_IdempotentCreation ==
    /\ \A i \in Tasks : Found(i) => "create" \notin task_calls[i]
    /\ (run > 1 /\ device_client = Session) =>
         \A i \in Tasks :
            (/\ task_pc[i] = "done"
             /\ device_ids[i] \in DOMAIN prev_store
             /\ device_ids[i] \notin faulted) =>
                /\ "create" \notin task_calls[i]
                /\ registry[device_ids[i]] # NoDevice
                /\ Truthy(task_res[i])
                /\ task_res[i].device_id = prev_store[device_ids[i]].device_id

C3_Witness ==
    /\ run > 1
    /\ device_client = Session
    /\ \E i \in Tasks :
         /\ task_pc[i] = "done"
         /\ device_ids[i] \in DOMAIN prev_store
         /\ device_ids[i] \notin faulted
         /\ Found(i)
         /\ task_res[i].device_id = prev_store[device_ids[i]].device_id

\* C4: a non-empty credential carries the primary key read by the re-fetch,
\* on the pre-existing and on the newly created path alike.
C4_KeyFromRefetch ==
    \A i \in Tasks :
        Truthy(task_res[i]) =>
            /\ "fetch" \in task_calls[i] \ task_err[i]
            /\ task_res[i].shared_access_key = task_info[i]

\* Both paths, each with a key that changed between the first sight of the
\* device and the re-fetch.
C4_Witness ==
    /\ \E i \in Tasks :
         /\ Found(i)
         /\ Truthy(task_res[i])
         /\ task_device[i] # task_info[i]
         /\ task_res[i].shared_access_key = task_info[i]
    /\ \E i \in Tasks :
         /\ "create" \in task_calls[i]
         /\ Truthy(task_res[i])
         /\ task_device[i] # task_info[i]
         /\ task_res[i].shared_access_key = task_info[i]

\* C5 as stated: a task in which any registry step raised (the lookup
\* included) returns an empty result and does not raise.
C5_AnyRaiseYieldsEmpty ==
    \A i \in Tasks :
        (Terminal(task_pc[i]) /\ task_err[i] # {}) =>
            task_pc[i] = "done" /\ task_res[i] = EmptyDict

\* C5, amended: create_device never raises; it returns an empty result when
\* the creation or the key retrieval raised; a raising lookup alone sends it
\* to the creation, and it returns a credential when the rest succeeds.
C5_RaiseHandling ==
    \A i \in Tasks :
        /\ task_pc[i] # "raised"
        /\ task_pc[i] = "done" =>
             /\ task_err[i] \cap {"create", "fetch"} # {} => task_res[i] = EmptyDict
             /\ task_err[i] \subseteq {"lookup"} => Truthy(task_res[i])
             /\ "lookup" \in task_err[i] => "create" \in task_calls[i]

C5_Witness ==
    /\ \E i \in Tasks :
         task_pc[i] = "done" /\ task_err[i] = {"lookup"} /\ Truthy(task_res[i])
    /\ \E i \in Tasks :
         task_pc[i] = "done" /\ "fetch" \in task_err[i] /\ task_res[i] = EmptyDict

JsonFile(credentials) == [kind |-> "json", data |-> JsonDump(credentials)]

\* C6 as stated: whenever create_devices_from_list has returned, the file
\* has been written and holds the returned store, also when it is empty.
C6_AlwaysPersisted ==
    Returned => file = JsonFile(main_credentials)

\* C6, amended: whenever create_devices_from_list has returned, the write of
\* the file has been attempted, whatever the number of successes; the file
\* holds the returned store when the write succeeded; it is as before when
\* open failed and truncated when json.dump failed.
C6_PersistAttempted ==
    Returned =>
        /\ persist_res \in WriteOutcomes
        /\ persist_res = "ok" => file = JsonFile(main_credentials)
        /\ persist_res = "open_fail" => FileKeys(file) = prev_written
        /\ persist_res = "dump_fail" => file = [kind |-> "partial", data |-> {}]

C6_Witness ==
    /\ Returned
    /\ Len(device_ids) = 2
    /\ main_credentials = EmptyDict
    /\ persist_res = "ok"
    /\ file = JsonFile(EmptyDict)

\* Identifiers of the previous run's store that the current store lacks.
DroppedIds == DOMAIN prev_store \ DOMAIN main_credentials

\* C7 as stated: after a second run the file holds exactly the second run's
\* store; an identifier only the first run's store had is not in the file.
C7_SecondRunReplaces ==
    (run > 1 /\ Returned) =>
        /\ file = JsonFile(main_credentials)
        /\ DroppedIds \cap FileKeys(file) = {}

\* C7, amended: a second run whose write succeeds leaves exactly its own
\* store in the file, without the identifiers only the first run had; a
\* failed write leaves the file as it was or truncated, never a merge.
C7_OverwriteNotMerge ==
    (run > 1 /\ Returned) =>
        /\ persist_res = "ok" =>
             /\ file = JsonFile(main_credentials)
             /\ (DroppedIds \cup prev_written) \cap FileKeys(file)
                   \subseteq DOMAIN main_credentials
        /\ persist_res = "open_fail" => FileKeys(file) = prev_written
        /\ persist_res = "dump_fail" => FileKeys(file) = {}

C7_Witness ==
    /\ run > 1
    /\ Returned
    /\ persist_res = "ok"
    /\ \E id \in DroppedIds \cap prev_written : id \notin FileKeys(file)
    /\ main_credentials # EmptyDict

\* C8: every connect_device that built a connection and has returned has
\* invoked its disconnect, also when opening it failed.
C8_AlwaysCloses ==
    \A i \in DOMAIN conn_pc :
        (ConnTerminal(conn_pc[i]) /\ conn_err[i] # "build") => conn_closed[i]

\* connect_hub has returned without storing a session.
NoSession == main_pc # "connect_hub" /\ device_client = NoClient

\* Every finished task failed on its own: lookup and creation both raised.
TasksFailIndividually ==
    \A i \in Tasks :
        task_pc[i] = "done" =>
            task_res[i] = EmptyDict /\ task_err[i] = {"lookup", "create"}

\* C9 as stated: a failed connect_hub does not raise; the batch that follows
\* is not aborted, every task fails individually, the call returns an empty
\* store without raising and the empty store is in the file.
C9_NoSessionEmptyPersisted ==
    /\ main_pc # "caught"
    /\ cm_pc # "raised"
    /\ NoSession => TasksFailIndividually
    /\ (NoSession /\ Returned) =>
         /\ \A i \in 1..Len(device_ids) : i \in Tasks /\ task_pc[i] = "done"
         /\ main_credentials = EmptyDict
         /\ file = JsonFile(EmptyDict)

\* C9, amended: as stated, but the empty store is written to the file only
\* when the write itself succeeds; a failed write is caught as well.
C9_NoSessionEmptyStore ==
    /\ main_pc # "caught"
    /\ cm_pc # "raised"
    /\ NoSession => TasksFailIndividually
    /\ (NoSession /\ Returned) =>
         /\ \A i \in 1..Len(device_ids) : i \in Tasks /\ task_pc[i] = "done"
         /\ main_credentials = EmptyDict
         /\ persist_res \in WriteOutcomes
         /\ persist_res = "ok" => file = JsonFile(EmptyDict)

C9_Witness ==
    /\ NoSession
    /\ Returned
    /\ Len(device_ids) = 2
    /\ \E id \in Range(device_ids) : registry[id] # NoDevice
    /\ persist_res = "ok"
    /\ file = JsonFile(EmptyDict)

\* The phases of a run, in order.
Phase(pc) ==
    CASE pc = "connect_hub"                   -> 0    \* Disconnected
      [] pc \in {"generate", "create"}        -> 1    \* Connected
      [] pc \in {"provisioning", "prompt"}    -> 2    \* Provisioning
      [] pc = "checking"                      -> 3    \* ConnectivityChecking
      [] pc \in {"done", "caught"}            -> 4    \* Done

PhaseStep == run' = run => Phase(main_pc') >= Phase(main_pc)

\* No creation task exists before connect_hub has returned, and none runs
\* outside the provisioning phase.
TasksAfterConnect ==
    (Tasks # {} \/ cm_pc # "idle") => Phase(main_pc) = 2

\* Connectivity tasks exist only once create_devices_from_list has returned,
\* and only for entries of the returned store.
ChecksAfterReturn ==
    conn_pc # <<>> =>
        /\ Phase(main_pc) >= 3
        /\ cm_pc = "idle"
        /\ persist_res \in WriteOutcomes
        /\ Range(conn_ids) = DOMAIN main_credentials
        /\ Len(conn_ids) = Cardinality(DOMAIN main_credentials)

\* C10 as stated: the phases follow each other without a step back, no
\* creation task before connect_hub has returned, no connectivity check
\* before the store has been returned and written to the file, and checks
\* only for entries of the returned store.
C10_PhasesStorePersisted ==
    /\ [][PhaseStep]_vars
    /\ [](TasksAfterConnect /\ ChecksAfterReturn)
    /\ [](conn_pc # <<>> => file = JsonFile(main_credentials))

\* C10, amended: the same order, but the connectivity checks start after
\* create_devices_from_list has returned from its write attempt, which may
\* have failed and left the file without the store.
C10_PhaseOrder ==
    /\ [][PhaseStep]_vars
    /\ [](TasksAfterConnect /\ ChecksAfterReturn)
    /\ [](conn_pc # <<>> /\ persist_res = "ok" => file = JsonFile(main_credentials))

C10_Witness ==
    /\ main_pc = "checking"
    /\ Len(device_ids) = 2
    /\ Len(conn_ids) = 1
    /\ conn_pc[1] # "pending"
    /\ persist_res = "ok"

\* ------------------------------------------------- properties, continued
\* The handler holds a session and no call of the batch raised that the
\* registry could have served: only lookups of missing devices fail.
FaultFree == device_client = Session /\ faulted = {}

\* The identifiers for which some task of the batch invoked the creation.
CreatedIds == {device_ids[i] : i \in {j \in Tasks : "create" \in task_calls[j]}}

\* C12: when only lookups of missing devices fail, the returned store has
\* an entry for every identifier of the batch, and the creation is invoked
\* exactly for the identifiers missing from the registry before the batch.
C12_FullStore ==
    (Returned /\ FaultFree) =>
        /\ DOMAIN main_credentials = Range(device_ids)
        /\ CreatedIds = Range(device_ids) \ existed
        /\ \A i \in Tasks : Found(i) <=> device_ids[i] \in existed

C12_Witness ==
    /\ Returned
    /\ FaultFree
    /\ Len(device_ids) = 2
    /\ Cardinality(Range(device_ids) \cap existed) = 1
    /\ Cardinality(CreatedIds) = 1
    /\ DOMAIN main_credentials = Range(device_ids)

\* C13: the entry under a key is the result of the task launched for that
\* key; its device_id is the key and its hostname the handler's.
C13_MatchedByPosition ==
    Assembled =>
        \A k \in DOMAIN all_credentials :
            /\ \E i \in Tasks : device_ids[i] = k /\ all_credentials[k] = task_res[i]
            /\ all_credentials[k].device_id = k
            /\ all_credentials[k].hostname = Hostname

C13_Witness ==
    /\ Returned
    /\ Len(device_ids) = 2
    /\ DOMAIN main_credentials = Range(device_ids)
    /\ main_credentials[device_ids[1]] # main_credentials[device_ids[2]]
    /\ \A i \in Tasks : main_credentials[device_ids[i]] = task_res[i]

\* C15: connect_all_devices launches one connect_device per entry of the
\* store, none for an empty store (it can then return at once), and is
\* left only when every one of them has finished.
C15_OneCheckPerEntry ==
    /\ [](main_pc = "checking" =>
            /\ DOMAIN conn_pc = DOMAIN conn_ids
            /\ Len(conn_ids) = Cardinality(DOMAIN main_credentials)
            /\ Range(conn_ids) = DOMAIN main_credentials)
    /\ [](main_pc = "checking" /\ main_credentials = EmptyDict =>
            conn_pc = <<>> /\ ENABLED ConnAllJoin)
    /\ [][main_pc = "checking" /\ main_pc' # "checking" =>
            /\ \A i \in DOMAIN conn_pc : ConnTerminal(conn_pc[i])
            /\ conn_pc' = conn_pc]_vars

C15_Witness ==
    /\ main_pc = "done"
    /\ Len(conn_pc) = 2
    /\ Cardinality(DOMAIN main_credentials) = 2
    /\ \A i \in DOMAIN conn_pc : ConnTerminal(conn_pc[i])

\* The step connect_device task j can take next.
ConnStepEnabled(j) ==
    CASE conn_pc[j] = "pending" ->
            (\A k \in 1..(j - 1) : conn_pc[k] # "pending") => ENABLED ConnStart(j)
      [] conn_pc[j] = "connecting"    -> ENABLED ConnOpen(j)
      [] conn_pc[j] = "disconnecting" -> ENABLED ConnClose(j)
      [] OTHER                        -> TRUE

\* C16: no connect_device raises; a failure to build, open or close is
\* caught in the task, reaches neither connect_all_devices nor main, and
\* leaves every other task able to go on; all are finished at the end.
C16_CheckFailuresIsolated ==
    /\ main_pc # "caught"
    /\ \A j \in DOMAIN conn_pc :
         /\ conn_pc[j] # "raised"
         /\ conn_err[j] # "none" => conn_pc[j] = "failed"
         /\ main_pc = "checking" => ConnStepEnabled(j)
         /\ main_pc = "done" => conn_pc[j] \in {"done", "failed"}

C16_Witness ==
    /\ main_pc = "done"
    /\ Len(conn_pc) = 2
    /\ conn_pc[1] = "failed"
    /\ conn_err[1] = "open"
    /\ conn_pc[2] = "done"

\* The write of the credential file failed.
WriteFailed == persist_res \in {"open_fail", "dump_fail"}

\* C17: a failed write of the file is caught: create_devices_from_list
\* returns the store of all successful identifiers without raising, and
\* main goes on to the prompt with it.
C17_WriteFailureCaught ==
    /\ cm_pc # "raised"
    /\ WriteFailed =>
         /\ main_pc # "caught"
         /\ Returned =>
              /\ main_pc = "prompt"
              /\ main_credentials = AssembleStore(device_ids, task_res)
              /\ DOMAIN main_credentials = Range(device_ids) \ FailedIds

C17_Witness ==
    /\ Returned
    /\ WriteFailed
    /\ main_pc = "prompt"
    /\ Len(device_ids) = 2
    /\ Cardinality(DOMAIN main_credentials) = 2
    /\ file # JsonFile(main_credentials)

\* Task i has made its lookup and has not returned yet.
MidFlight(i) == "lookup" \in task_calls[i] /\ ~Terminal(task_pc[i])

\* Task j can make its next registry call now.
CallEnabled(j) == ENABLED (T_Lookup(j) \/ T_Create(j) \/ T_Fetch(j))

\* C14: the tasks of a batch run concurrently, each suspending at its
\* registry calls: while one task is between its lookup and its return,
\* another unfinished task of the batch can make a registry call.
C14_TasksInterleave ==
    \A i, j \in Tasks :
        (i # j /\ MidFlight(i) /\ ~Terminal(task_pc[j])) => CallEnabled(j)

\* What the code does instead: while a task is between its lookup and its
\* return, every other task is either finished or not started, and none
\* can make a registry call.
C14_NoInterleaving ==
    \A i, j \in Tasks :
        (i # j /\ MidFlight(i)) =>
            /\ task_pc[j] = "pending" \/ Terminal(task_pc[j])
            /\ ~CallEnabled(j)

\* --------------------- create_devices_from_list called with any list
\* Every list of at most MaxBatch identifiers, repetitions included.
AllBatches == UNION {[1..n -> Ids] : n \in 0..MaxBatch}

\* A caller hands create_devices_from_list a list of its own.
DirectCall ==
    /\ main_pc = "generate"
    /\ \E batch \in AllBatches : device_ids' = batch
    /\ main_pc' = "create"
    /\ UNCHANGED <<run, device_client, registry, cm_pc, taskVars,
                   all_credentials, main_credentials, persist_res, file,
                   runVars, connVars, genVars>>

NextDirect ==
    \/ ConnectHub
    \/ DirectCall
    \/ CM_Launch
    \/ \E i \in 1..MaxBatch : T_Lookup(i)
    \/ \E i \in 1..MaxBatch : T_Create(i)
    \/ \E i \in 1..MaxBatch : T_Fetch(i)
    \/ CM_Join
    \/ CM_Persist
    \/ \E id \in Ids : RotateKey(id)

SpecDirect == Init /\ [][NextDirect]_vars

\* The tasks of the batch launched for id; those that invoked the creation;
\* those whose creation succeeded.
TasksFor(id)     == {i \in Tasks : device_ids[i] = id}
CreateCalls(id)  == {i \in TasksFor(id) : "create" \in task_calls[i]}
CreateOks(id)    == {i \in CreateCalls(id) : "create" \notin task_err[i]}

\* Identifiers given more than once and missing when the batch started.
RepeatedMissing ==
    {id \in Ids : Cardinality(TasksFor(id)) > 1 /\ id \notin existed}

\* C19 as stated: for an identifier given more than once and missing
\* beforehand, the creation is invoked at most once over the batch and the
\* returned store holds one entry for it (a handler without a session
\* reaches no registry and is left aside).
C19_CreateInvokedOnce ==
    (Returned /\ device_client = Session) =>
        \A id \in RepeatedMissing :
            /\ Cardinality(CreateCalls(id)) <= 1
            /\ id \in DOMAIN main_credentials

\* C19, amended: the creation succeeds at most once for such an identifier
\* and the store never holds more than the one entry under its key; when
\* the handler has a session and no call for the identifier fails apart
\* from the lookup of the missing device, the creation is invoked exactly
\* once (by the first task, the later ones find the device) and the store
\* holds the entry.
C19_CreateOnceUnlessFailure ==
    Returned =>
        \A id \in RepeatedMissing :
            /\ Cardinality(CreateOks(id)) <= 1
            /\ id \in DOMAIN main_credentials =>
                 main_credentials[id].device_id = id
            /\ (device_client = Session /\ id \notin faulted) =>
                 /\ Cardinality(CreateCalls(id)) = 1
                 /\ \A i \in CreateCalls(id) : \A j \in TasksFor(id) : i <= j
                 /\ id \in DOMAIN main_credentials

\* The first half of C19 alone, for a handler with a session.
C19_InvokedAtMostOnce ==
    (Returned /\ device_client = Session) =>
        \A id \in RepeatedMissing : Cardinality(CreateCalls(id)) <= 1

C19_Witness ==
    /\ Returned
    /\ device_client = Session
    /\ \E id \in RepeatedMissing :
         /\ id \notin faulted
         /\ Cardinality(CreateCalls(id)) = 1
         /\ \A i \in TasksFor(id) : Truthy(task_res[i])
         /\ id \in DOMAIN main_credentials

\* ------------------------------------------- generate_mac_addresses alone
mainVars == <<run, main_pc, device_client, registry, device_ids, cm_pc,
              taskVars, all_credentials, main_credentials, persist_res, file,
              runVars, connVars>>

\* generate_mac_addresses is entered with some num_of_ids; nothing else of
\* the program has run.
InitGen ==
    /\ run = 1
    /\ main_pc = "connect_hub"
    /\ device_client = NoClient
    /\ registry = [id \in Ids |-> NoDevice]
    /\ device_ids = <<>>
    /\ cm_pc = "idle"
    /\ task_pc = <<>>
    /\ task_device = <<>>
    /\ task_info = <<>>
    /\ task_res = <<>>
    /\ task_err = <<>>
    /\ task_calls = <<>>
    /\ faulted = {}
    /\ existed = {}
    /\ all_credentials = EmptyDict
    /\ main_credentials = EmptyDict
    /\ persist_res = "none"
    /\ file = NoFile
    /\ prev_store = EmptyDict
    /\ prev_written = {}
    /\ conn_ids = <<>>
    /\ conn_pc = <<>>
    /\ conn_closed = <<>>
    /\ conn_err = <<>>
    /\ gen_pc = "loop"
    /\ num_of_ids \in 0..MaxCount
    /\ mac_addresses = {}
    /\ gen_iters = 0
    /\ gen_result = <<>>

\* One iteration of the while loop adding the candidate mac.
GenIterate(mac) ==
    /\ gen_pc = "loop"
    /\ LoopContinues(mac_addresses, num_of_ids)
    /\ mac_addresses' = mac_addresses \cup {mac}
    /\ gen_iters' = gen_iters + 1
    /\ UNCHANGED <<gen_pc, num_of_ids, gen_result, mainVars>>

\* mac_addresses.add(self.generate_mac()) with a candidate not drawn before.
GenDrawFresh ==
    \E mac \in GenerateMac \ mac_addresses : GenIterate(mac)

\* The same with a candidate that is in the set already.
GenDrawDuplicate ==
    /\ gen_iters - Cardinality(mac_addresses) < MaxDups
    /\ \E mac \in GenerateMac \cap mac_addresses : GenIterate(mac)

\* return list(mac_addresses)
GenReturn ==
    /\ gen_pc = "loop"
    /\ ~LoopContinues(mac_addresses, num_of_ids)
    /\ \E l \in ListsOf(mac_addresses) : gen_result' = l
    /\ gen_pc' = "returned"
    /\ UNCHANGED <<num_of_ids, mac_addresses, gen_iters, mainVars>>

NextGen ==
    \/ GenDrawFresh
    \/ GenDrawDuplicate
    \/ GenReturn

SpecGen == InitGen /\ [][NextGen]_vars

\* A random source does not return values of the set for ever, and the
\* function returns once its loop has ended.
SpecGenFair == SpecGen /\ WF_vars(GenDrawFresh) /\ WF_vars(GenReturn)

\* The number an octet of a rendered identifier stands for.
DigitValue(c) == CHOOSE d \in 0..15 : HexDigits[d + 1] = c
OctetValue(s, k) == 16 * DigitValue(s[3 * k - 2]) + DigitValue(s[3 * k - 1])

\* Six two-digit lowercase octets joined by "-", the first three being the
\* vendor prefix and the fourth at most 0x7f.
WellFormedMac(s) ==
    /\ Len(s) = 17
    /\ \A k \in 1..5 : s[3 * k] = "-"
    /\ \A k \in 1..6 :
         /\ \E d \in 1..16 : s[3 * k - 2] = HexDigits[d]
         /\ \E d \in 1..16 : s[3 * k - 1] = HexDigits[d]
    /\ \A k \in 1..3 : OctetValue(s, k) = Prefix[k]
    /\ OctetValue(s, 4) <= Oct4Max
    /\ OctetValue(s, 5) <= OctMax
    /\ OctetValue(s, 6) <= OctMax

\* C11: generate_mac_addresses returns exactly num_of_ids identifiers,
\* pairwise distinct, each the vendor prefix followed by three octets of
\* which the first is at most 0x7f.
C11_CountDistinctMacs ==
    /\ \A s \in mac_addresses : WellFormedMac(s)
    /\ gen_pc = "returned" =>
         /\ Len(gen_result) = num_of_ids
         /\ \A i, j \in 1..Len(gen_result) :
               gen_result[i] = gen_result[j] => i = j
         /\ \A i \in 1..Len(gen_result) : WellFormedMac(gen_result[i])

C11_Witness ==
    /\ gen_pc = "returned"
    /\ num_of_ids = MaxCount
    /\ Len(gen_result) = MaxCount
    /\ gen_iters > num_of_ids
    /\ \E i \in 1..Len(gen_result) : OctetValue(gen_result[i], 4) = Oct4Max

\* The loop has ended with a set of num_of_ids identifiers.
GenDone == gen_pc = "returned" /\ Cardinality(mac_addresses) = num_of_ids

\* An iteration leaves the size of the set as it is or adds exactly one.
GenSizeStep ==
    LET before == Cardinality(mac_addresses)
        after  == Cardinality(mac_addresses')
    IN  /\ after \in {before, before + 1}
        /\ after <= num_of_ids

\* C18: the loop ends with a set of num_of_ids identifiers when the random
\* source is fair, each iteration adding one identifier or none; with
\* num_of_ids = 0 the body never runs and the result is empty.
C18_LoopTerminates ==
    /\ <>GenDone
    /\ [][GenSizeStep]_vars
    /\ [](num_of_ids = 0 => gen_iters = 0 /\ mac_addresses = {} /\ gen_result = <<>>)

\* Reached after a duplicate draw; the space holds more than num_of_ids
\* identifiers.
C18_Witness ==
    /\ GenDone
    /\ num_of_ids = MaxCount
    /\ num_of_ids <= Cardinality(GenerateMac)
    /\ gen_iters = num_of_ids + MaxDups

====
